---- MODULE Spec2Model ----
(***************************************************************************)
(* Locale-aware route resolution of                                        *)
(* src/runtime/routing/compatibles/routing.ts: prefixable,                 *)
(* getRouteBaseName, resolveRoute, localePath, localeRoute,                *)
(* localeLocation and switchLocalePath.                                    *)
(*                                                                         *)
(* Strings the code takes apart (paths, route names) are sequences of      *)
(* one-character tokens; a locale inside a path or a name is one token.    *)
(* An absent or undefined string is the one-token sequence NoValue.        *)
(***************************************************************************)
EXTENDS Naturals, Sequences, FiniteSets, TLC

VARIABLES router, options, route, i18nLocale, callerRef, call

vars == <<router, options, route, i18nLocale, callerRef, call>>

--------------------------------------------------------------------------
(* Bounds of the model. *)

\* longest path a caller passes in
MaxPathLen == 3
\* longest base name the name codec is tried on
MaxNameLen == 2

--------------------------------------------------------------------------
(* Values. *)

NoValue == <<"undefined">>
NullName == <<"(null)">>
EmptyStr == << >>

Locales == {"en", "fr"}
\* the locale argument left out
NoLocale == ""

Strategies == {"prefix", "prefix_and_default", "prefix_except_default", "no_prefix"}

\* JavaScript truthiness of an optional string
Truthy(s) == s # NoValue /\ s # EmptyStr

Last(s) == s[Len(s)]
Front(s) == SubSeq(s, 1, Len(s) - 1)

\* route params: every key holds a value or is absent ("-")
ParamKeys == {"slug", "id"}
NoParam == "-"
EmptyParams == [k \in ParamKeys |-> NoParam]

\* { ...a, ...b }
SpreadParams(a, b) == [k \in ParamKeys |-> IF b[k] # NoParam THEN b[k] ELSE a[k]]

--------------------------------------------------------------------------
(* Prefix policy. *)

RESOLVED_PREFIXED == {"prefix_and_default", "prefix_except_default"}

prefixableNoPrefixIgnored(currentLocale, defaultLocale, strategy) ==
    LET isDefaultLocale == currentLocale = defaultLocale
    IN  ~(isDefaultLocale /\ strategy \in RESOLVED_PREFIXED)

prefixable(currentLocale, defaultLocale, strategy) ==
    LET isDefaultLocale == currentLocale = defaultLocale
    IN  /\ ~(isDefaultLocale /\ strategy \in RESOLVED_PREFIXED)
        /\ ~(strategy = "no_prefix")

\* options.prefixable: the default rule, or a caller-supplied predicate
\* (here one that prefixes every locale)
ApplyPrefixable(opts, currentLocale) ==
    IF opts.prefixable = "default"
    THEN prefixable(currentLocale, opts.defaultLocale, opts.strategy)
    ELSE TRUE

--------------------------------------------------------------------------
(* Name codec. *)

\* index of the first occurrence of sep in s, 0 when there is none
RECURSIVE IndexFrom(_, _, _)
IndexFrom(s, sep, i) ==
    IF i + Len(sep) - 1 > Len(s) THEN 0
    ELSE IF SubSeq(s, i, i + Len(sep) - 1) = sep THEN i
    ELSE IndexFrom(s, sep, i + 1)

Contains(s, sep) == IndexFrom(s, sep, 1) # 0

\* name.split(sep)[0], sep not empty
UpTo(s, i) == IF i = 0 THEN s ELSE SubSeq(s, 1, i - 1)

SplitFirst(s, sep) == UpTo(s, IndexFrom(s, sep, 1))

\* getRouteName: a string name as it is, a null or undefined one as "(null)"
getRouteName(name) == IF name = NoValue THEN NullName ELSE name

\* getLocaleRouteName
getLocaleRouteName(name, locale, opts) ==
    IF opts.strategy = "no_prefix" THEN getRouteName(name)
    ELSE IF opts.strategy = "prefix_and_default" /\ locale = opts.defaultLocale
    THEN getRouteName(name) \o opts.routesNameSeparator \o <<opts.defaultLocaleRouteNameSuffix>>
    ELSE getRouteName(name) \o opts.routesNameSeparator \o <<locale>>

\* getRouteBaseName of a route that is not null
BaseNameOf(opts, r) ==
    IF r.isNull \/ ~Truthy(r.name) THEN NoValue
    ELSE SplitFirst(getRouteName(r.name), opts.routesNameSeparator)

\* getRouteBaseName.call(this, givenRoute): this.route is current, and
\* stands in for a givenRoute that is null or undefined
getRouteBaseName(opts, current, givenRoute) ==
    BaseNameOf(opts, IF givenRoute.isNull THEN current ELSE givenRoute)

--------------------------------------------------------------------------
(* Route locations, resolved routes and the external router. *)

\* a route location object: which of path and name it has, and their values
Descriptor(hasPath, path, hasName, name, params) ==
    [hasPath |-> hasPath, path |-> path, hasName |-> hasName, name |-> name,
     params |-> params]

EmptyObj == Descriptor(FALSE, NoValue, FALSE, NoValue, EmptyParams)

\* a RouteLocationRaw: a string, or a route location object
StrRef(s) == [isString |-> TRUE, str |-> s, obj |-> EmptyObj]
ObjRef(d) == [isString |-> FALSE, str |-> EmptyStr, obj |-> d]

NullRoute ==
    [isNull |-> TRUE, name |-> NoValue, fullPath |-> NoValue,
     redirectedFrom |-> NoValue, params |-> EmptyParams]

Resolved(name, fullPath, redirectedFrom, params) ==
    [isNull |-> FALSE, name |-> name, fullPath |-> fullPath,
     redirectedFrom |-> redirectedFrom, params |-> params]

\* the outcome of one router.resolve: a route, or a thrown error
Ok(r) == [threw |-> "", route |-> r]
Throw(kind) == [threw |-> kind, route |-> NullRoute]

\* the default '___' of routesNameSeparator and the default suffix
DefaultSeparator == <<"_", "_", "_">>
DefaultSuffix == "default"

Rec(name, path, redirectedFrom) ==
    [name |-> name, path |-> path, redirectedFrom |-> redirectedFrom]

\* the route records a router is built with: none; a page "a" localized for
\* en (default, unprefixed) and fr; the same page under no_prefix, with a
\* second page the router reports as redirected
RouteTables ==
    { {},
      { Rec(<<"a">> \o DefaultSeparator \o <<"en">>, <<"/", "a">>, NoValue),
        Rec(<<"a">> \o DefaultSeparator \o <<"fr">>, <<"/", "fr", "/", "a">>, NoValue) },
      { Rec(<<"a">>, <<"/", "a">>, NoValue),
        Rec(<<"a", "a">>, <<"/", "a", "a">>, <<"/", "a", "/">>) } }

\* what makes the router throw an error that is not a no-match error:
\* nothing, every lookup by path, every lookup by name
RouterFaults == {"none", "byPath", "byName"}

Matched(r, params) == Ok(Resolved(r.name, r.path, r.redirectedFrom, params))

ResolveByName(rt, name, params) ==
    IF rt.fault = "byName" THEN Throw("Other")
    ELSE IF \E r \in rt.routes : r.name = name
    THEN Matched(CHOOSE r \in rt.routes : r.name = name, params)
    ELSE Throw("NoMatch")

ResolveByPath(rt, path) ==
    IF rt.fault = "byPath" THEN Throw("Other")
    ELSE IF \E r \in rt.routes : r.path = path
    THEN Matched(CHOOSE r \in rt.routes : r.path = path, EmptyParams)
    ELSE Ok(Resolved(NoValue, path, NoValue, EmptyParams))

\* router.resolve(location), with current the current route: a string is a
\* path; an object is looked up by its name, else by its path, else it is the
\* current location
RouterResolve(rt, current, loc) ==
    IF loc.isString THEN ResolveByPath(rt, loc.str)
    ELSE IF loc.obj.hasName /\ Truthy(loc.obj.name)
    THEN ResolveByName(rt, loc.obj.name, loc.obj.params)
    ELSE IF loc.obj.hasPath THEN ResolveByPath(rt, loc.obj.path)
    ELSE IF Truthy(current.name)
    THEN ResolveByName(rt, current.name, current.params)
    ELSE Throw("NoMatch")

\* resolve(router, route, strategy, locale) of ./utils: the discovery lookup
\* of an unlocalized path
resolve(rt, current, d, strategy, locale) == RouterResolve(rt, current, ObjRef(d))

--------------------------------------------------------------------------
(* ufo's trailing-slash helpers, on a path with no query and no fragment. *)

hasTrailingSlash(p) == Len(p) > 0 /\ Last(p) = "/"

withTrailingSlash(p) ==
    IF hasTrailingSlash(p) THEN p ELSE p \o <<"/">>

withoutTrailingSlash(p) ==
    IF ~hasTrailingSlash(p) THEN (IF p = EmptyStr THEN <<"/">> ELSE p)
    ELSE IF Front(p) = EmptyStr THEN <<"/">> ELSE Front(p)

--------------------------------------------------------------------------
(* resolveRoute. *)

\* assign({}, src) that hands back src itself instead of a copy
assignAliased(src, srcIsCaller) == [obj |-> src, aliased |-> srcIsCaller]

\* assign({}, src): a fresh object with src's fields; writes to it never
\* reach src
assign(src, srcIsCaller) == [obj |-> src, aliased |-> FALSE]

\* (val) => 'path' in val && !!val.path && !('name' in val)
isRouteLocationPathRaw(val) == val.hasPath /\ Truthy(val.path) /\ ~val.hasName

\* a route parameter that is a string: a path when it starts with "/",
\* else a route name
RouteOfString(str) ==
    IF Len(str) > 0 /\ str[1] = "/"
    THEN Descriptor(TRUE, str, FALSE, NoValue, EmptyParams)
    ELSE Descriptor(FALSE, NoValue, TRUE, str, EmptyParams)

\* a catch that does not recognise the no-match error
CatchFinalUnrecognised(threw) == "undefined"

\* the catch of the final try block: a no-match error gives null, any other
\* error falls out of the catch and the function ends without a value
CatchFinal(threw) == IF threw = "NoMatch" THEN "null" ELSE "undefined"

\* the path of the unmatched-path branch: prefixed when the policy says so,
\* then with or without a trailing slash
\* trailingSlash ? withTrailingSlash(path, true) : withoutTrailingSlash(path, true)
NormalizeSlash(opts, path) ==
    IF opts.trailingSlash THEN withTrailingSlash(path)
    ELSE withoutTrailingSlash(path)

\* LocalizedPath without the locale prefix
LocalizedPathUnprefixed(opts, locale, path) == NormalizeSlash(opts, path)

LocalizedPath(opts, locale, path) ==
    NormalizeSlash(opts, IF ApplyPrefixable(opts, locale)
                         THEN <<"/", locale>> \o path ELSE path)

\* the name the else branch encodes: the current route's base name when the
\* object has no usable name and no path field, else its own name
NameToLocalize(opts, current, d) ==
    IF ~Truthy(d.name) /\ ~d.hasPath
    THEN getRouteBaseName(opts, current, current)
    ELSE d.name

\* locale || getLocale(i18n)
EffectiveLocale(locale, i18n) == IF locale # NoLocale THEN locale ELSE i18n

\* _route: the object made from a string parameter, or the caller's object
RouteOfRef(ref) == IF ref.isString THEN RouteOfString(ref.str) ELSE ref.obj

\* what the first half of resolveRoute leaves: the route handed to the final
\* router.resolve, whether it is still the caller's own object, and the
\* error thrown before the final try block, if any
Localized(locale, branch, discovery, threw, localized, aliased) ==
    [locale |-> locale, branch |-> branch, discovery |-> discovery,
     threw |-> threw, localized |-> localized, aliased |-> aliased]

\* the path branch after the discovery lookup and getRouteBaseName of its
\* result: a name was found (reading resolvedRoute.params throws when
\* resolvedRoute is null), or the path is prefixed and normalized
AfterDiscovery(opts, _locale, copy, disc, resolvedRouteName) ==
    IF resolvedRouteName # NoValue
    THEN IF disc.threw # ""
         THEN Localized(_locale, "named", "threw", "TypeError", copy.obj, FALSE)
         ELSE Localized(_locale, "named", "ok", "",
                  Descriptor(FALSE, NoValue, TRUE,
                             getLocaleRouteName(resolvedRouteName, _locale, opts),
                             disc.route.params),
                  FALSE)
    ELSE Localized(_locale, "unmatched",
             IF disc.threw # "" THEN "threw" ELSE "ok", "",
             [copy.obj EXCEPT !.path = LocalizedPath(opts, _locale, copy.obj.path)],
             copy.aliased)

\* try { _resolvedRoute = resolve(...) } catch {}: null when it throws
Discovered(disc) == IF disc.threw # "" THEN NullRoute ELSE disc.route

\* the branch of a route with a path and no name
LocalizePath(opts, current, _locale, copy, disc) ==
    AfterDiscovery(opts, _locale, copy, disc,
                   getRouteBaseName(opts, current, Discovered(disc)))

\* the else branch: the name is encoded for the locale
LocalizeName(opts, current, _locale, copy) ==
    Localized(_locale, "name", "none", "",
        [copy.obj EXCEPT !.hasName = TRUE,
                         !.name = getLocaleRouteName(
                             NameToLocalize(opts, current, copy.obj), _locale, opts)],
        copy.aliased)

LocalizeCopy(rt, opts, current, _locale, copy) ==
    IF isRouteLocationPathRaw(copy.obj)
    THEN LocalizePath(opts, current, _locale, copy,
                      resolve(rt, current, copy.obj, opts.strategy, _locale))
    ELSE LocalizeName(opts, current, _locale, copy)

\* The first half of resolveRoute, up to the final try block.
Localize(rt, opts, current, i18n, ref, locale) ==
    LocalizeCopy(rt, opts, current, EffectiveLocale(locale, i18n),
                 assign(RouteOfRef(ref), ~ref.isString))

\* the localized route taken for the caller's route parameter
CallerAfterLocalized(ref, l) == ObjRef(l.localized)

\* the caller's route parameter as the first half leaves it
CallerAfter(ref, l) == IF l.aliased THEN ObjRef(l.localized) ELSE ref

\* What one call of resolveRoute did. outcome: "route" (value is the route
\* returned), "null", "undefined", or "throw" (error is what is thrown; a
\* caught error is in error too). final and fallback are the outcomes of the
\* two router.resolve calls of the try block, fallbackArg what the second was
\* given, callerAfter the caller's route parameter after the call.
Result(l, ref, outcome, value, error, finalCalled, final, fallbackCalled, fallback) ==
    [l |-> l, callerAfter |-> CallerAfter(ref, l), outcome |-> outcome,
     value |-> value, error |-> error, finalCalled |-> finalCalled,
     final |-> final, fallbackCalled |-> fallbackCalled,
     fallbackArg |-> CallerAfter(ref, l), fallback |-> fallback]

\* return router.resolve(route)
AfterFallback(l, ref, r1, r2) ==
    IF r2.threw # ""
    THEN Result(l, ref, CatchFinal(r2.threw), NullRoute, r2.threw, TRUE, r1, TRUE, r2)
    ELSE Result(l, ref, "route", r2.route, "", TRUE, r1, TRUE, r2)

\* const resolvedRoute = router.resolve(localizedRoute) and what follows
AfterFinal(rt, current, l, ref, r1) ==
    IF r1.threw # ""
    THEN Result(l, ref, CatchFinal(r1.threw), NullRoute, r1.threw, TRUE, r1,
                FALSE, Throw(""))
    ELSE IF Truthy(r1.route.name)
    THEN Result(l, ref, "route", r1.route, "", TRUE, r1, FALSE, Throw(""))
    ELSE AfterFallback(l, ref, r1, RouterResolve(rt, current, CallerAfter(ref, l)))

\* the final try block
Finish(rt, current, l, ref) ==
    IF l.threw # ""
    THEN Result(l, ref, "throw", NullRoute, l.threw, FALSE, Throw(""), FALSE, Throw(""))
    ELSE AfterFinal(rt, current, l, ref, RouterResolve(rt, current, ObjRef(l.localized)))

\* resolveRoute.call(this, route, locale)
resolveRoute(rt, opts, current, i18n, ref, locale) ==
    Finish(rt, current, Localize(rt, opts, current, i18n, ref, locale), ref)

--------------------------------------------------------------------------
(* localePath, localeRoute, localeLocation. *)

\* localizedRoute.redirectedFrom?.fullPath || localizedRoute.fullPath
PathOf(r) == IF Truthy(r.redirectedFrom) THEN r.redirectedFrom ELSE r.fullPath

\* localePath of what resolveRoute gave: the path of the resolved route,
\* '' when there is none
PathResult(r) ==
    [r |-> r,
     outcome |-> IF r.outcome = "throw" THEN "throw" ELSE "string",
     text |-> IF r.outcome = "route" THEN PathOf(r.value) ELSE EmptyStr]

\* localeRoute and localeLocation of what resolveRoute gave: the resolved
\* route, undefined when there is none
RouteResult(r) ==
    [r |-> r,
     outcome |-> IF r.outcome \in {"null", "undefined"} THEN "undefined"
                 ELSE r.outcome,
     value |-> r.value]

localePath(rt, opts, current, i18n, ref, locale) ==
    PathResult(resolveRoute(rt, opts, current, i18n, ref, locale))

localeRoute(rt, opts, current, i18n, ref, locale) ==
    RouteResult(resolveRoute(rt, opts, current, i18n, ref, locale))

localeLocation(rt, opts, current, i18n, ref, locale) ==
    RouteResult(resolveRoute(rt, opts, current, i18n, ref, locale))

--------------------------------------------------------------------------
(* The state machine of the resolver. *)

RECURSIVE SeqsUpTo(_, _)
\* the sequences over alphabet of length 0 .. n
SeqsUpTo(alphabet, n) ==
    IF n = 0 THEN { << >> }
    ELSE { << >> } \cup { <<c>> \o q : c \in alphabet, q \in SeqsUpTo(alphabet, n - 1) }

\* the paths a caller writes: "/", "/a", "//", "/a/", ...
UserPaths == { q \in SeqsUpTo({"/", "a"}, MaxPathLen) : Len(q) > 0 /\ q[1] = "/" }

\* the route parameters callers pass: path strings, a name string, and
\* objects with or without a path and a name
RouteRefs ==
    { StrRef(q) : q \in UserPaths \cup { <<"a">> } }
    \cup { ObjRef(Descriptor(hp, IF hp THEN q ELSE NoValue,
                             hn, IF hn THEN n ELSE NoValue, EmptyParams)) :
             hp \in BOOLEAN, q \in { EmptyStr, <<"/">>, <<"/", "a">> },
             hn \in BOOLEAN, n \in { EmptyStr, <<"a">> } }

LocaleArgs == Locales \cup { NoLocale }

NoHook == [l \in Locales |-> [given |-> FALSE, params |-> EmptyParams]]

\* the routing options the resolver reads
ResolverOptions ==
    { [strategy |-> s, defaultLocale |-> d, trailingSlash |-> t, prefixable |-> p,
       routesNameSeparator |-> DefaultSeparator,
       defaultLocaleRouteNameSuffix |-> DefaultSuffix,
       dynamicRouteParamsKey |-> "nuxtI18n", dynamicParams |-> NoHook] :
        s \in Strategies, d \in { "", "en" }, t \in BOOLEAN,
        p \in { "default", "always" } }

NoMeta == [isRef |-> FALSE, key |-> "none", value |-> NoHook]

CurrentRoute(name, fullPath, params, meta) ==
    [isNull |-> FALSE, name |-> name, fullPath |-> fullPath,
     redirectedFrom |-> NoValue, params |-> params, meta |-> meta]

\* the current route: an unnamed one, or the page "a" in en
ResolverRoutes ==
    { CurrentRoute(NoValue, <<"/">>, EmptyParams, NoMeta),
      CurrentRoute(<<"a">> \o DefaultSeparator \o <<"en">>, <<"/", "a">>,
                   EmptyParams, NoMeta) }

Routers ==
    { [routes |-> t, fault |-> "none"] : t \in RouteTables }
    \cup { [routes |-> {}, fault |-> f] : f \in RouterFaults }

Idle == [op |-> "idle"]

Init ==
    /\ router \in Routers
    /\ options \in ResolverOptions
    /\ route \in ResolverRoutes
    /\ i18nLocale \in Locales
    /\ callerRef \in RouteRefs
    /\ call = Idle

\* the caller makes a new route parameter
NewRef ==
    /\ call = Idle
    /\ callerRef' \in RouteRefs
    /\ UNCHANGED <<router, options, route, i18nLocale, call>>

\* the application navigates: the current route changes
Navigate ==
    /\ call = Idle
    /\ route' \in ResolverRoutes
    /\ UNCHANGED <<router, options, i18nLocale, callerRef, call>>

\* the active locale changes
SetLocale ==
    /\ call = Idle
    /\ i18nLocale' \in Locales
    /\ UNCHANGED <<router, options, route, callerRef, call>>

\* the caller has taken the result of its call
Return ==
    /\ call # Idle
    /\ call' = Idle
    /\ UNCHANGED <<router, options, route, i18nLocale, callerRef>>

\* the state after a call of op with this locale that gave res
Called(op, locale, res) ==
    /\ call' = [op |-> op, ref |-> callerRef, locale |-> locale, res |-> res]
    /\ callerRef' = res.r.callerAfter
    /\ UNCHANGED <<router, options, route, i18nLocale>>

ResolveRouteCall ==
    /\ call = Idle
    /\ \E locale \in LocaleArgs :
        Called("resolveRoute", locale,
               [r |-> resolveRoute(router, options, route, i18nLocale, callerRef, locale)])

LocalePathCall ==
    /\ call = Idle
    /\ \E locale \in LocaleArgs :
        Called("localePath", locale,
               localePath(router, options, route, i18nLocale, callerRef, locale))

LocaleRouteCall ==
    /\ call = Idle
    /\ \E locale \in LocaleArgs :
        Called("localeRoute", locale,
               localeRoute(router, options, route, i18nLocale, callerRef, locale))

LocaleLocationCall ==
    /\ call = Idle
    /\ \E locale \in LocaleArgs :
        Called("localeLocation", locale,
               localeLocation(router, options, route, i18nLocale, callerRef, locale))

Next ==
    \/ NewRef
    \/ Navigate
    \/ SetLocale
    \/ Return
    \/ ResolveRouteCall
    \/ LocalePathCall
    \/ LocaleRouteCall
    \/ LocaleLocationCall

Spec == Init /\ [][Next]_vars

--------------------------------------------------------------------------
(* switchLocalePath. *)

\* the value of DEFAULT_DYNAMIC_PARAMS_KEY
DEFAULT_DYNAMIC_PARAMS_KEY == "nuxtI18n"

\* an object of per-locale param overrides with one entry, and the entry of
\* a locale it does not hold
Override(params) == [given |-> TRUE, params |-> params]
NoOverride == [given |-> FALSE, params |-> EmptyParams]
Only(locale, params) ==
    [l \in Locales |-> IF l = locale THEN Override(params) ELSE NoOverride]

\* getLocalizableMetaFromDynamicParams(route, key): nothing under the default
\* key; else what route.meta (a ref or not) holds under key, {} when nothing
getLocalizableMetaFromDynamicParams(r, key) ==
    IF key = DEFAULT_DYNAMIC_PARAMS_KEY THEN NoHook
    ELSE IF r.meta.isRef
    THEN (IF r.meta.key = key THEN r.meta.value ELSE NoHook)
    ELSE (IF r.meta.key = key THEN r.meta.value ELSE NoHook)

\* langSwitchParamsIntercepted ?? langSwitchParams ?? {} with the two overrides
\* the wrong way round
resolvedParamsMetaFirst(intercepted, langSwitchParams) ==
    IF langSwitchParams.given THEN langSwitchParams.params
    ELSE IF intercepted.given THEN intercepted.params
    ELSE EmptyParams

\* langSwitchParamsIntercepted ?? langSwitchParams ?? {}, where
\* langSwitchParams is the metadata's entry for the locale || {}
resolvedParams(intercepted, langSwitchParams) ==
    IF intercepted.given THEN intercepted.params
    ELSE IF langSwitchParams.given THEN langSwitchParams.params
    ELSE EmptyParams

\* baseRoute: the copy of the current route overlaid with the base name and
\* the merged params
BaseRoute(opts, r, name, locale) ==
    Descriptor(TRUE, r.fullPath, TRUE, name,
        SpreadParams(r.params,
            resolvedParams(opts.dynamicParams[locale],
                getLocalizableMetaFromDynamicParams(r, opts.dynamicRouteParamsKey)[locale])))

\* switchLocalePathIntercepter(path, locale): the default one
DefaultSwitchLocalePathIntercepter(path, locale) == path

\* what switchLocalePath gives for the candidate route: the path localePath
\* finds for it, passed through the intercepter
Switched(candidate, found, locale) ==
    [early |-> FALSE, candidate |-> candidate, outcome |-> found.outcome,
     text |-> DefaultSwitchLocalePathIntercepter(found.text, locale)]

\* localePath.call(this, baseRoute, locale) and what follows
SwitchTo(rt, opts, current, i18n, candidate, locale) ==
    Switched(candidate,
             localePath(rt, opts, current, i18n, ObjRef(candidate), locale),
             locale)

\* the rest of switchLocalePath once the base name is known: '' when there
\* is none
SwitchFrom(rt, opts, current, i18n, name, locale) ==
    IF ~Truthy(name)
    THEN [early |-> TRUE, candidate |-> EmptyObj, outcome |-> "string",
          text |-> EmptyStr]
    ELSE SwitchTo(rt, opts, current, i18n, BaseRoute(opts, current, name, locale), locale)

\* switchLocalePath.call(this, locale)
switchLocalePath(rt, opts, current, i18n, locale) ==
    SwitchFrom(rt, opts, current, i18n, getRouteBaseName(opts, current, current), locale)

\* the routing options the switcher reads: the metadata key is the default
\* one or a custom one; the params interceptor gives nothing, an empty
\* override for fr, or a slug for fr
SwitcherOptions ==
    { [strategy |-> s, defaultLocale |-> "en", trailingSlash |-> FALSE,
       prefixable |-> "default",
       routesNameSeparator |-> DefaultSeparator,
       defaultLocaleRouteNameSuffix |-> DefaultSuffix,
       dynamicRouteParamsKey |-> k, dynamicParams |-> h] :
        s \in { "prefix_except_default", "no_prefix" },
        k \in { DEFAULT_DYNAMIC_PARAMS_KEY, "i18nParams" },
        h \in { NoHook, Only("fr", EmptyParams),
                Only("fr", [slug |-> "salut", id |-> NoParam]) } }

\* route.meta: nothing, or overrides held under one of the two keys, directly
\* or behind a ref
SwitcherMetas ==
    { NoMeta }
    \cup { [isRef |-> b, key |-> k, value |-> Only("fr", [slug |-> "bonjour", id |-> NoParam])] :
             b \in BOOLEAN, k \in { DEFAULT_DYNAMIC_PARAMS_KEY, "i18nParams" } }

\* the current route: an unnamed one, or the page "a" in en, with params
SwitcherRoutes ==
    { CurrentRoute(n, <<"/", "a">>, p, m) :
        n \in { NoValue, <<"a">> \o DefaultSeparator \o <<"en">>, <<"a">> },
        p \in { EmptyParams, [slug |-> "hello", id |-> "1"] },
        m \in SwitcherMetas }

InitSwitch ==
    /\ router \in { [routes |-> t, fault |-> "none"] : t \in RouteTables }
    /\ options \in SwitcherOptions
    /\ route \in SwitcherRoutes
    /\ i18nLocale = "en"
    /\ callerRef = ObjRef(EmptyObj)
    /\ call = Idle

\* the application navigates: the current route changes
NavigateSwitch ==
    /\ call = Idle
    /\ route' \in SwitcherRoutes
    /\ UNCHANGED <<router, options, i18nLocale, callerRef, call>>

SwitchLocalePathCall ==
    /\ call = Idle
    /\ \E locale \in Locales :
        call' = [op |-> "switchLocalePath", locale |-> locale,
                 res |-> switchLocalePath(router, options, route, i18nLocale, locale)]
    /\ UNCHANGED <<router, options, route, i18nLocale, callerRef>>

NextSwitch ==
    \/ NavigateSwitch
    \/ Return
    \/ SwitchLocalePathCall

SpecSwitch == InitSwitch /\ [][NextSwitch]_vars

--------------------------------------------------------------------------
(* The pure functions: the prefix policy and the name codec. *)

\* base names: the non-empty sequences over "a" and "_" up to MaxNameLen
BaseNames == SeqsUpTo({"a", "_"}, MaxNameLen) \ { EmptyStr }

CodecOptions ==
    { [strategy |-> s, defaultLocale |-> d, trailingSlash |-> FALSE,
       prefixable |-> "default",
       routesNameSeparator |-> DefaultSeparator,
       defaultLocaleRouteNameSuffix |-> DefaultSuffix,
       dynamicRouteParamsKey |-> DEFAULT_DYNAMIC_PARAMS_KEY,
       dynamicParams |-> NoHook] :
        s \in Strategies, d \in { "", "en", "fr" } }

InitPure ==
    /\ router = [routes |-> {}, fault |-> "none"]
    /\ options \in CodecOptions
    /\ route = CurrentRoute(NoValue, <<"/">>, EmptyParams, NoMeta)
    /\ i18nLocale = "en"
    /\ callerRef = ObjRef(EmptyObj)
    /\ call = Idle

\* prefixable({ currentLocale, defaultLocale, strategy })
PrefixableCall ==
    /\ call = Idle
    /\ \E currentLocale \in Locales \cup { "" }, defaultLocale \in Locales \cup { "" },
          strategy \in Strategies :
        call' = [op |-> "prefixable", currentLocale |-> currentLocale,
                 defaultLocale |-> defaultLocale, strategy |-> strategy,
                 result |-> prefixable(currentLocale, defaultLocale, strategy)]
    /\ UNCHANGED <<router, options, route, i18nLocale, callerRef>>

\* getLocaleRouteName(base, locale, options)
EncodeCall ==
    /\ call = Idle
    /\ \E base \in BaseNames, locale \in Locales :
        call' = [op |-> "getLocaleRouteName", base |-> base, locale |-> locale,
                 name |-> getLocaleRouteName(base, locale, options)]
    /\ UNCHANGED <<router, options, route, i18nLocale, callerRef>>

\* getRouteBaseName of a route that has the name just encoded
DecodeCall ==
    /\ call.op = "getLocaleRouteName"
    /\ call' = [op |-> "getRouteBaseName", base |-> call.base, locale |-> call.locale,
                name |-> call.name,
                result |-> getRouteBaseName(options, route,
                              Resolved(call.name, <<"/">>, NoValue, EmptyParams))]
    /\ UNCHANGED <<router, options, route, i18nLocale, callerRef>>

NextPure ==
    \/ PrefixableCall
    \/ EncodeCall
    \/ DecodeCall
    \/ Return

SpecPure == InitPure /\ [][NextPure]_vars

--------------------------------------------------------------------------
(* The claims about the resolver, checked under Spec. *)

ResolverOps == {"resolveRoute", "localePath", "localeRoute", "localeLocation"}

IsResolverCall == call.op \in ResolverOps

\* the error thrown inside the final try block of the last call, "" if none
FinalError ==
    IF call.res.r.final.threw # "" THEN call.res.r.final.threw
    ELSE IF call.res.r.fallbackCalled THEN call.res.r.fallback.threw
    ELSE ""

\* the path the caller gave, when the route parameter has one
GivenPath == IF call.ref.isString THEN call.ref.str ELSE call.ref.obj.path

(* C1: when a router.resolve of the final try block throws a no-match      *)
(* error, resolveRoute returns null, localePath returns '', localeRoute    *)
(* and localeLocation return undefined, and nothing is thrown.             *)
C1_NoMatchGivesNull ==
    (IsResolverCall /\ FinalError = "NoMatch") =>
        /\ call.res.r.outcome = "null"
        /\ call.op = "localePath" =>
              call.res.outcome = "string" /\ call.res.text = EmptyStr
        /\ call.op \in {"localeRoute", "localeLocation"} =>
              call.res.outcome = "undefined"

C1_Witness ==
    /\ call.op = "localePath"
    /\ call.res.r.final.threw = "NoMatch"
    /\ call.res.r.outcome = "null"
    /\ call.res.text = EmptyStr

(* C2: when a router.resolve of the final try block throws an error that   *)
(* is not a no-match error, the error propagates to the caller of          *)
(* resolveRoute, localePath, localeRoute and localeLocation; it is never   *)
(* turned into a returned value.                                           *)
C2_OtherErrorPropagates ==
    (IsResolverCall /\ FinalError = "Other") =>
        /\ call.res.r.outcome = "throw"
        /\ call.op # "resolveRoute" => call.res.outcome = "throw"

(* C3: when router.resolve of the localized route returns a named route,   *)
(* resolveRoute returns that route; when it returns an unnamed route,      *)
(* resolveRoute returns what router.resolve gives for the caller's         *)
(* original route parameter, named or not.                                 *)
C3_FinalResolutionFallback ==
    (IsResolverCall /\ call.res.r.finalCalled /\ call.res.r.final.threw = "") =>
        IF Truthy(call.res.r.final.route.name)
        THEN /\ ~call.res.r.fallbackCalled
             /\ call.res.r.outcome = "route"
             /\ call.res.r.value = call.res.r.final.route
        ELSE /\ call.res.r.fallbackCalled
             /\ call.res.r.fallbackArg = call.ref
             /\ call.res.r.fallback = RouterResolve(router, route, call.ref)
             /\ call.res.r.fallback.threw = "" =>
                   /\ call.res.r.outcome = "route"
                   /\ call.res.r.value = call.res.r.fallback.route

C3_Witness ==
    /\ call.op = "resolveRoute"
    /\ call.res.r.l.branch = "unmatched"
    /\ call.res.r.l.localized.path # GivenPath
    /\ call.res.r.fallbackCalled
    /\ call.res.r.outcome = "route"
    /\ call.res.r.value.fullPath = GivenPath

\* the path of the unmatched-path branch before the trailing slash is seen to
PrefixedGivenPath ==
    IF ApplyPrefixable(options, call.res.r.l.locale)
    THEN <<"/", call.res.r.l.locale>> \o GivenPath
    ELSE GivenPath

\* the scenario of the claim: strategy prefix, path /a, locale fr, no
\* trailing slash gives /fr/a
C4_Scenario ==
    (/\ options.strategy = "prefix"
     /\ GivenPath = <<"/", "a">>
     /\ call.res.r.l.locale = "fr"
     /\ ~options.trailingSlash)
        => call.res.r.l.localized.path = <<"/", "fr", "/", "a">>

(* C4 as stated: in the unmatched-path branch the path handed to the final *)
(* router.resolve is "/" + locale + path when the prefix policy says so    *)
(* and the path otherwise, and then ends with exactly one "/" when         *)
(* trailingSlash is set and has its trailing "/" stripped when not; under  *)
(* no_prefix no locale segment is ever prepended.                          *)
C4_Original ==
    (IsResolverCall /\ call.res.r.l.branch = "unmatched") =>
        /\ options.trailingSlash =>
              /\ call.res.r.l.localized.path \in
                    { PrefixedGivenPath, PrefixedGivenPath \o <<"/">> }
              /\ Last(call.res.r.l.localized.path) = "/"
              /\ Len(call.res.r.l.localized.path) > 1 =>
                    Last(Front(call.res.r.l.localized.path)) # "/"
        /\ ~options.trailingSlash =>
              call.res.r.l.localized.path =
                  IF Last(PrefixedGivenPath) = "/" THEN Front(PrefixedGivenPath)
                  ELSE PrefixedGivenPath
        /\ C4_Scenario
        /\ options.strategy = "no_prefix" => PrefixedGivenPath = GivenPath

(* C4 as amended: in the unmatched-path branch the path handed to the      *)
(* final router.resolve is "/" + locale + path when the prefix policy says *)
(* so and the path otherwise; then, when trailingSlash is set, a "/" is    *)
(* appended unless the path already ends with one, and when it is not set  *)
(* one trailing "/" is removed unless that would leave the empty path,     *)
(* which stays "/". Strategy prefix, path /a, locale fr, no trailing slash *)
(* gives /fr/a; under no_prefix the default prefix policy prepends nothing.*)
C4_LocalizedPath ==
    (IsResolverCall /\ call.res.r.l.branch = "unmatched") =>
        /\ options.trailingSlash =>
              call.res.r.l.localized.path =
                  IF Last(PrefixedGivenPath) = "/" THEN PrefixedGivenPath
                  ELSE PrefixedGivenPath \o <<"/">>
        /\ ~options.trailingSlash =>
              call.res.r.l.localized.path =
                  IF Last(PrefixedGivenPath) # "/" THEN PrefixedGivenPath
                  ELSE IF Len(PrefixedGivenPath) = 1 THEN <<"/">>
                  ELSE Front(PrefixedGivenPath)
        /\ C4_Scenario
        /\ (options.strategy = "no_prefix" /\ options.prefixable = "default") =>
              PrefixedGivenPath = GivenPath
        /\ call.res.r.finalCalled
        /\ call.res.r.final =
              RouterResolve(router, route, ObjRef(call.res.r.l.localized))

C4_Witness ==
    /\ call.op = "localePath"
    /\ call.res.r.l.branch = "unmatched"
    /\ options.strategy = "prefix"
    /\ GivenPath = <<"/", "a">>
    /\ call.res.r.l.locale = "fr"
    /\ ~options.trailingSlash
    /\ call.res.r.l.localized.path = <<"/", "fr", "/", "a">>

(* C5: for a route with a path and no name, an error thrown by the         *)
(* discovery lookup is swallowed whatever the current route is:            *)
(* resolveRoute does not throw because of it and goes on with the          *)
(* unmatched-path branch.                                                  *)
C5_DiscoveryErrorSwallowed ==
    (IsResolverCall /\ call.res.r.l.discovery = "threw") =>
        /\ call.res.r.l.threw = ""
        /\ call.res.r.outcome # "throw"
        /\ call.res.r.l.branch = "unmatched"
        /\ call.res.r.finalCalled

(* C9: when the route parameter is an object with no non-empty path and no *)
(* usable name (an object with neither field, or one whose path is the     *)
(* empty string), the name encoded for the locale and handed to the final  *)
(* router.resolve is the base name of the current route.                   *)
C9_FallsBackToCurrentRoute ==
    (/\ IsResolverCall
     /\ ~call.ref.isString
     /\ ~(call.ref.obj.hasPath /\ Truthy(call.ref.obj.path))
     /\ ~(call.ref.obj.hasName /\ Truthy(call.ref.obj.name)))
        => /\ call.res.r.l.branch = "name"
           /\ call.res.r.l.localized.hasName
           /\ call.res.r.l.localized.name =
                 getLocaleRouteName(getRouteBaseName(options, route, route),
                                    call.res.r.l.locale, options)

(* C10: resolveRoute, localePath, localeRoute and localeLocation leave the *)
(* caller's route parameter as it was: the fallback router.resolve is      *)
(* given the original parameter, and the same call made again gives the    *)
(* same result.                                                            *)
C10_CallerRouteUntouched ==
    IsResolverCall =>
        /\ callerRef = call.ref
        /\ call.res.r.callerAfter = call.ref
        /\ call.res.r.fallbackCalled => call.res.r.fallbackArg = call.ref
        /\ resolveRoute(router, options, route, i18nLocale, callerRef, call.locale)
              = call.res.r

C10_Witness ==
    /\ call.op = "resolveRoute"
    /\ ~call.ref.isString
    /\ call.res.r.l.branch = "unmatched"
    /\ call.res.r.l.localized # call.ref.obj
    /\ call.res.r.fallbackCalled
    /\ callerRef = call.ref

--------------------------------------------------------------------------
(* The claims about the pure functions, checked under SpecPure. *)

(* C6: prefixable is false under no_prefix whatever the locales; under     *)
(* prefix_and_default and prefix_except_default it is false exactly when   *)
(* currentLocale = defaultLocale; under prefix it is true for every pair   *)
(* of locales.                                                             *)
C6_PrefixPolicy ==
    call.op = "prefixable" =>
        /\ call.strategy = "no_prefix" => ~call.result
        /\ call.strategy \in {"prefix_and_default", "prefix_except_default"} =>
              (call.result <=> call.currentLocale # call.defaultLocale)
        /\ call.strategy = "prefix" => call.result

C6_Witness ==
    /\ call.op = "prefixable"
    /\ call.strategy = "no_prefix"
    /\ call.currentLocale # call.defaultLocale
    /\ ~call.result

(* C8: for every base name that does not contain the separator, every      *)
(* locale and every strategy, getRouteBaseName of a route named by the     *)
(* locale-qualified name encoded from the base name returns the base name. *)
C8_CodecRoundTrip ==
    (call.op = "getRouteBaseName" /\ ~Contains(call.base, options.routesNameSeparator))
        => call.result = call.base

--------------------------------------------------------------------------
(* The claim about the switcher, checked under SpecSwitch. *)

\* the override the claim says is chosen: the interceptor's for the locale,
\* else the one the metadata holds for it under the configured key
C7_ChosenAnyKey ==
    IF options.dynamicParams[call.locale].given
    THEN options.dynamicParams[call.locale].params
    ELSE IF /\ route.meta.key = options.dynamicRouteParamsKey
            /\ route.meta.value[call.locale].given
    THEN route.meta.value[call.locale].params
    ELSE EmptyParams

\* the same, the metadata being read only under a key that is not the
\* default key
C7_Chosen ==
    IF options.dynamicParams[call.locale].given
    THEN options.dynamicParams[call.locale].params
    ELSE IF /\ options.dynamicRouteParamsKey # DEFAULT_DYNAMIC_PARAMS_KEY
            /\ route.meta.key = options.dynamicRouteParamsKey
            /\ route.meta.value[call.locale].given
    THEN route.meta.value[call.locale].params
    ELSE EmptyParams

(* C7 as stated: switchLocalePath on a route with a base name hands        *)
(* localePath a candidate named by the base name whose params are the      *)
(* current params overlaid with the interceptor's override for the locale  *)
(* if there is one, else with the override the metadata holds for the      *)
(* locale under the configured key, whatever that key is, else with        *)
(* nothing; every param the override does not name keeps its value.        *)
C7_Original ==
    (call.op = "switchLocalePath" /\ Truthy(getRouteBaseName(options, route, route))) =>
        /\ ~call.res.early
        /\ call.res.candidate.name = getRouteBaseName(options, route, route)
        /\ \A k \in ParamKeys :
              call.res.candidate.params[k] =
                  IF C7_ChosenAnyKey[k] # NoParam THEN C7_ChosenAnyKey[k]
                  ELSE route.params[k]

(* C7 as amended: the same, except that the metadata is read only when the *)
(* configured key is not the default key DEFAULT_DYNAMIC_PARAMS_KEY; under *)
(* the default key the metadata is ignored and only the interceptor's      *)
(* override, or nothing, is overlaid.                                      *)
C7_SwitchParams ==
    (call.op = "switchLocalePath" /\ Truthy(getRouteBaseName(options, route, route))) =>
        /\ ~call.res.early
        /\ call.res.candidate.hasName
        /\ call.res.candidate.name = getRouteBaseName(options, route, route)
        /\ \A k \in ParamKeys :
              call.res.candidate.params[k] =
                  IF C7_Chosen[k] # NoParam THEN C7_Chosen[k]
                  ELSE route.params[k]

C7_Witness ==
    /\ call.op = "switchLocalePath"
    /\ call.locale = "fr"
    /\ ~options.dynamicParams["fr"].given
    /\ route.meta.isRef
    /\ route.params = [slug |-> "hello", id |-> "1"]
    /\ call.res.candidate.name = <<"a">>
    /\ call.res.candidate.params = [slug |-> "bonjour", id |-> "1"]

====
